---- MODULE Spec2Model ----
(***************************************************************************)
(* A model of promlinter (src/promlinter.go): the syntax-tree visitor that *)
(* recognises Prometheus metric constructors, resolves their string        *)
(* options, records metric families and lints them.                        *)
(*                                                                         *)
(* Strings are sequences of one-character tokens, so that unquoting,       *)
(* concatenation, joining and the ordering of formatted positions are      *)
(* computed rather than assumed.  Syntax-tree nodes are records whose      *)
(* field t is the Go type of the node as %T prints it.                     *)
(***************************************************************************)
EXTENDS Integers, Sequences, FiniteSets, TLC

VARIABLES strict, phase, visited, todo, metrics, issues, last

vars == <<strict, phase, visited, todo, metrics, issues, last>>

(***************************************************************************)
(* Characters and strings                                                  *)
(***************************************************************************)
DQ == "\""
BS == "\\"
BQ == "BQUOTE"
LF == "\n"
BEL == "BEL"
BSP == "BSP"

NoString == <<>>

\* a nil *string, and a pointer to the string s
NilPtr == <<>>
Ptr(s) == <<s>>

\* ASCII codes of the characters that occur in formatted positions
CharCode ==
  [c \in {".", "0", "1", "2", "3", "4", "5", "6", "7", "8", "9", ":", "g", "m", "o"} |->
     CASE c = "." -> 46
       [] c = "0" -> 48 [] c = "1" -> 49 [] c = "2" -> 50 [] c = "3" -> 51
       [] c = "4" -> 52 [] c = "5" -> 53 [] c = "6" -> 54 [] c = "7" -> 55
       [] c = "8" -> 56 [] c = "9" -> 57 [] c = ":" -> 58
       [] c = "g" -> 103 [] c = "m" -> 109 [] c = "o" -> 111]

DigitChar == <<"0", "1", "2", "3", "4", "5", "6", "7", "8", "9">>

RECURSIVE Itoa(_)
Itoa(n) == IF n < 10 THEN <<DigitChar[n + 1]>>
           ELSE Itoa(n \div 10) \o <<DigitChar[(n % 10) + 1]>>

\* the < of Go on strings: byte-wise lexicographic
StrLess(a, b) ==
  \E k \in 1..Len(b) :
    /\ k <= Len(a) + 1
    /\ \A i \in 1..(k - 1) : a[i] = b[i]
    /\ \/ k = Len(a) + 1
       \/ CharCode[a[k]] < CharCode[b[k]]

HasSuffix(s, suf) ==
  /\ Len(s) >= Len(suf)
  /\ SubSeq(s, Len(s) - Len(suf) + 1, Len(s)) = suf

(***************************************************************************)
(* strconv.Unquote on the text of a literal (promlinter.go:430-437).  The  *)
(* result is [ok, val]; ok = FALSE is the error on which mustUnquote       *)
(* panics.                                                                 *)
(***************************************************************************)
EscapeChars == {"a", "b", "n", BS, DQ}

EscapeValue(c) ==
  CASE c = "a" -> BEL
    [] c = "b" -> BSP
    [] c = "n" -> LF
    [] c = BS -> BS
    [] c = DQ -> DQ

SyntaxError == [ok |-> FALSE, val |-> <<>>]

Unquoted(c, rest) == IF rest.ok THEN [ok |-> TRUE, val |-> <<c>> \o rest.val] ELSE SyntaxError

RECURSIVE UnescapeBody(_)
UnescapeBody(body) ==
  IF body = <<>> THEN [ok |-> TRUE, val |-> <<>>]
  ELSE IF body[1] = DQ \/ body[1] = LF THEN SyntaxError
  ELSE IF body[1] = BS
    THEN IF Len(body) < 2 \/ body[2] \notin EscapeChars
           THEN SyntaxError
           ELSE Unquoted(EscapeValue(body[2]), UnescapeBody(SubSeq(body, 3, Len(body))))
  ELSE Unquoted(body[1], UnescapeBody(Tail(body)))

UnquoteBody(quote, body) ==
  CASE quote = BQ ->
         IF \E i \in 1..Len(body) : body[i] = BQ
           THEN SyntaxError
           ELSE [ok |-> TRUE, val |-> body]
    [] quote = DQ -> UnescapeBody(body)
    [] OTHER -> SyntaxError

Unquote(raw) ==
  IF Len(raw) < 2 \/ raw[1] # raw[Len(raw)] THEN SyntaxError
  ELSE UnquoteBody(raw[1], SubSeq(raw, 2, Len(raw) - 1))

(***************************************************************************)
(* Positions: token.Position and its String method, file:line:column.      *)
(***************************************************************************)
FileName == <<"m", ".", "g", "o">>

At(line, col) == [line |-> line, col |-> col]

\* a position under a //line directive that gives no column has column 0,
\* which String leaves out
PosString(p) ==
  FileName \o <<":">> \o Itoa(p.line) \o (IF p.col # 0 THEN <<":">> \o Itoa(p.col) ELSE <<>>)

(***************************************************************************)
(* Syntax-tree nodes (go/ast).  An identifier carries the declaration its  *)
(* Obj points to: NoObj when Obj is nil, a declaration node, or PkgObj(k), *)
(* the k-th package-level value spec, which the parser resolves at the end *)
(* of the file and which may therefore refer to itself.                    *)
(***************************************************************************)
BasicLit(kind, value) == [t |-> "*ast.BasicLit", kind |-> kind, value |-> value, pos |-> At(1, 1)]
StringLit(raw) == BasicLit("STRING", raw)
Quoted(s) == StringLit(<<DQ>> \o s \o <<DQ>>)

NoObj == [t |-> "nil"]
PkgObj(k) == [t |-> "pkg", id |-> k]
ValueSpec(names, values) == [t |-> "*ast.ValueSpec", names |-> names, values |-> values]
AssignStmt(lhs, rhs) == [t |-> "*ast.AssignStmt", lhs |-> lhs, rhs |-> rhs]
FieldDecl == [t |-> "*ast.Field"]

Ident(name, decl, pos) == [t |-> "*ast.Ident", name |-> name, decl |-> decl, pos |-> pos]
BinaryExpr(x, op, y) == [t |-> "*ast.BinaryExpr", x |-> x, op |-> op, y |-> y, pos |-> x.pos]
SelectorExpr(sel, pos) == [t |-> "*ast.SelectorExpr", sel |-> sel, pos |-> pos]
CallExpr(fun, args) == [t |-> "*ast.CallExpr", fun |-> fun, args |-> args, pos |-> fun.pos]
KeyValue(key, value) == [t |-> "*ast.KeyValueExpr", key |-> key, value |-> value]
CompositeLit(elts, pos) == [t |-> "*ast.CompositeLit", elts |-> elts, pos |-> pos]
OtherExpr(type, pos) == [t |-> type, pos |-> pos]

\* package-level value specs that refer to package-level names:
\*   var s = s          var m = n + "a"          var n = m
PkgDecls ==
  <<ValueSpec(<<"s">>, <<Ident("s", PkgObj(1), At(2, 9))>>),
    ValueSpec(<<"m">>, <<BinaryExpr(Ident("n", PkgObj(3), At(3, 9)), "+", Quoted(<<"a">>))>>),
    ValueSpec(<<"n">>, <<Ident("m", PkgObj(2), At(4, 9))>>),
    ValueSpec(<<"k">>, <<Quoted(<<"k">>)>>)>>

Decl(obj) == IF obj.t = "pkg" THEN PkgDecls[obj.id] ELSE obj

(***************************************************************************)
(* Issues                                                                  *)
(***************************************************************************)
Sprintf(format, args) == [format |-> format, args |-> args]

Issue(pos, metric, text) == [Pos |-> pos, Metric |-> metric, Text |-> text]

(***************************************************************************)
(* visitor.parseValue (promlinter.go:313-366).  The result is              *)
(* [ok, val, iss, fatal]: the two results of the function, the issues it   *)
(* appended to v.issues, and fatal = "unquote" when mustUnquote panicked,  *)
(* "recursion" when the call re-entered a value spec whose resolution is   *)
(* still pending, a recursion that never returns.                          *)
(***************************************************************************)
Resolved(s, iss) == [ok |-> TRUE, val |-> s, iss |-> iss, fatal |-> ""]
Failed(iss) == [ok |-> FALSE, val |-> <<>>, iss |-> iss, fatal |-> ""]
Fatal(how, iss) == [ok |-> FALSE, val |-> <<>>, iss |-> iss, fatal |-> how]

\* a default arm that reports nothing
UnsupportedIssueSilent(object, n) == <<>>

\* the default arm (promlinter.go:355-363)
UnsupportedIssue(object, n) ==
  IF strict
    THEN <<Issue(n.pos, NoString,
                 Sprintf("parsing field %s with type %T is not supported", <<object, n.t>>))>>
    ELSE <<>>

\* mustUnquote (promlinter.go:430-437) on the result u of strconv.Unquote
mustUnquote(u) == IF u.ok THEN Resolved(u.val, <<>>) ELSE Fatal("unquote", <<>>)

\* x + y (promlinter.go:347-352), x resolved
Concat(x, y) ==
  IF ~y.ok THEN [y EXCEPT !.iss = x.iss \o y.iss]
  ELSE Resolved(x.val \o y.val, x.iss \o y.iss)

RECURSIVE parseValueRec(_, _, _)
\* the operands of a binary expression (promlinter.go:342-352), x resolved or not
parseOperands(object, n, pending, x) ==
  IF ~x.ok THEN x ELSE Concat(x, parseValueRec(object, n.y, pending))

parseValueRec(object, n, pending) ==
  CASE n.t = "*ast.BasicLit" ->
         IF n.kind = "STRING" THEN mustUnquote(Unquote(n.value)) ELSE Failed(<<>>)
    [] n.t = "*ast.Ident" ->
         IF n.decl.t = "nil" THEN Failed(<<>>)
         ELSE IF Decl(n.decl).t = "*ast.ValueSpec"
           THEN IF n.decl.t = "pkg" /\ n.decl.id \in pending
                  THEN Fatal("recursion", <<>>)
                  ELSE parseValueRec(object, Decl(n.decl),
                                     IF n.decl.t = "pkg" THEN pending \cup {n.decl.id}
                                                         ELSE pending)
           ELSE Failed(<<>>)
    [] n.t = "*ast.ValueSpec" ->
         IF Len(n.values) = 0 THEN Failed(<<>>)
         ELSE parseValueRec(object, n.values[1], pending)
    [] n.t = "*ast.BinaryExpr" ->
         IF n.op = "+"
           THEN parseOperands(object, n, pending, parseValueRec(object, n.x, pending))
           ELSE Failed(<<>>)
    [] OTHER -> Failed(UnsupportedIssue(object, n))

parseValue(object, n) == parseValueRec(object, n, {})

(***************************************************************************)
(* The lookup tables of init (promlinter.go:22-47)                         *)
(***************************************************************************)
metricsType ==
  [name \in {"NewCounter", "NewCounterVec", "NewGauge", "NewGaugeVec",
             "NewHistogram", "NewHistogramVec", "NewSummary", "NewSummaryVec"} |->
     CASE name \in {"NewCounter", "NewCounterVec"} -> "COUNTER"
       [] name \in {"NewGauge", "NewGaugeVec"} -> "GAUGE"
       [] name \in {"NewHistogram", "NewHistogramVec"} -> "HISTOGRAM"
       [] name \in {"NewSummary", "NewSummaryVec"} -> "SUMMARY"]

constMetricArgs ==
  [name \in {"MustNewConstMetric", "MustNewHistogram", "MustNewSummary"} |->
     IF name = "MustNewConstMetric" THEN 3 ELSE 4]

validOptsFields == {"Name", "Namespace", "Subsystem", "Help"}

\* strings.HasSuffix(methodName, "Vec") on the names of metricsType
HasVecSuffix(methodName) ==
  methodName \in {"NewCounterVec", "NewGaugeVec", "NewHistogramVec", "NewSummaryVec"}

\* the %d rendering of an argument count
CountText(n) == DigitChar[n + 1]

(***************************************************************************)
(* prometheus.BuildFQName, called at promlinter.go:186.  The library       *)
(* returns the empty string when name is empty, whatever the namespace and *)
(* subsystem are; otherwise the non-empty parts joined with "_".           *)
(***************************************************************************)
JoinUnderscore(parts) ==
  IF Len(parts) = 3 THEN parts[1] \o <<"_">> \o parts[2] \o <<"_">> \o parts[3]
  ELSE IF Len(parts) = 2 THEN parts[1] \o <<"_">> \o parts[2]
  ELSE parts[1]

BuildFQName(namespace, subsystem, name) ==
  IF name = <<>> THEN <<>>
  ELSE IF namespace # <<>> /\ subsystem # <<>> THEN JoinUnderscore(<<namespace, subsystem, name>>)
  ELSE IF namespace # <<>> THEN JoinUnderscore(<<namespace, name>>)
  ELSE IF subsystem # <<>> THEN JoinUnderscore(<<subsystem, name>>)
  ELSE name

(***************************************************************************)
(* visitor.parseCompositeOpts (promlinter.go:275-311).  The result is      *)
(* [nil, namespace, subsystem, name, help, iss, fatal]; nil = TRUE is the  *)
(* return of (nil, nil).                                                   *)
(***************************************************************************)
EmptyOpt ==
  [nil |-> FALSE, namespace |-> <<>>, subsystem |-> <<>>, name |-> <<>>,
   help |-> NilPtr, iss |-> <<>>, fatal |-> ""]

NilOpt(iss, fatal) ==
  [nil |-> TRUE, namespace |-> <<>>, subsystem |-> <<>>, name |-> <<>>,
   help |-> NilPtr, iss |-> iss, fatal |-> fatal]

\* an assignment that stores the namespace as subsystem and the subsystem as
\* namespace
SetFieldSwapped(acc, field, s) ==
  CASE field = "Namespace" -> [acc EXCEPT !.subsystem = s]
    [] field = "Subsystem" -> [acc EXCEPT !.namespace = s]
    [] field = "Name" -> [acc EXCEPT !.name = s]
    [] field = "Help" -> [acc EXCEPT !.help = Ptr(s)]

\* the switch on object.Name (promlinter.go:298-307)
SetField(acc, field, s) ==
  CASE field = "Namespace" -> [acc EXCEPT !.namespace = s]
    [] field = "Subsystem" -> [acc EXCEPT !.subsystem = s]
    [] field = "Name" -> [acc EXCEPT !.name = s]
    [] field = "Help" -> [acc EXCEPT !.help = Ptr(s)]

\* whether the loop goes on to parse the value of the element elt
Recognized(elt) ==
  /\ elt.t = "*ast.KeyValueExpr"
  /\ elt.key.t = "*ast.Ident"
  /\ elt.key.name \in validOptsFields

RECURSIVE parseEltsFrom(_, _, _)
\* the loop body after parseValue returned r for the i-th element
parseElt(elts, i, acc, r) ==
  IF ~r.ok THEN NilOpt(acc.iss \o r.iss, r.fatal)
  ELSE parseEltsFrom(elts, i + 1,
                     [SetField(acc, elts[i].key.name, r.val) EXCEPT !.iss = acc.iss \o r.iss])

parseEltsFrom(elts, i, acc) ==
  IF i > Len(elts) THEN acc
  ELSE IF ~Recognized(elts[i]) THEN parseEltsFrom(elts, i + 1, acc)
  ELSE parseElt(elts, i, acc, parseValue(elts[i].key.name, elts[i].value))

parseCompositeOpts(stmt) == parseEltsFrom(stmt.elts, 1, EmptyOpt)

(***************************************************************************)
(* visitor.parseOpts (promlinter.go:257-273)                               *)
(***************************************************************************)
parseOpts(n) ==
  CASE n.t = "*ast.CompositeLit" -> parseCompositeOpts(n)
    [] n.t = "*ast.Ident" ->
         IF /\ n.decl.t # "nil"
            /\ Decl(n.decl).t = "*ast.AssignStmt"
            /\ Len(Decl(n.decl).rhs) > 0
            /\ Decl(n.decl).rhs[1].t = "*ast.CompositeLit"
           THEN parseCompositeOpts(Decl(n.decl).rhs[1])
           ELSE NilOpt(<<>>, "")
    [] OTHER -> NilOpt(<<>>, "")

(***************************************************************************)
(* Metric families and the effect of a handler on the visitor:             *)
(* [iss, mets, fatal], the issues appended to v.issues, the entries added  *)
(* to v.metrics, and how the handler ended when it did not return.         *)
(***************************************************************************)
MetricFamily(type, name, help) == [Type |-> type, Name |-> name, Help |-> help]

Entry(mf, pos) == [mf |-> mf, pos |-> pos]

Effect(iss, mets, fatal) == [iss |-> iss, mets |-> mets, fatal |-> fatal]

NoEffect == Effect(<<>>, <<>>, "")

ArgCountIssue(call, methodName, argNum) ==
  Issue(call.pos, NoString,
        Sprintf("%s should have at least %d arguments", <<methodName, CountText(argNum)>>))

(***************************************************************************)
(* visitor.parseCallerExpr (promlinter.go:119-191)                         *)
(***************************************************************************)
CalleeName(fun) ==
  CASE fun.t = "*ast.Ident" -> fun.name
    [] fun.t = "*ast.SelectorExpr" -> fun.sel
    [] OTHER -> ""

\* promlinter.go:177-190, o the result of parseOpts
recordMetric(methodName, optsPosition, o) ==
  IF o.nil THEN Effect(o.iss, <<>>, o.fatal)
  ELSE Effect(o.iss,
              <<Entry(MetricFamily(metricsType[methodName],
                                   Ptr(BuildFQName(o.namespace, o.subsystem, o.name)),
                                   o.help),
                      optsPosition)>>,
              "")

ArgNum(methodName) == IF HasVecSuffix(methodName) THEN 2 ELSE 1

parseCallerExprNamed(call, methodName) ==
  IF Len(call.args) < 1 /\ strict
    THEN Effect(<<ArgCountIssue(call, methodName, ArgNum(methodName))>>, <<>>, "")
  ELSE IF Len(call.args) = 0 THEN Effect(<<>>, <<>>, "index")
  ELSE recordMetric(methodName, call.args[1].pos, parseOpts(call.args[1]))

parseCallerExpr(call) ==
  IF call.fun.t \in {"*ast.Ident", "*ast.SelectorExpr"}
     /\ CalleeName(call.fun) \in DOMAIN metricsType
    THEN parseCallerExprNamed(call, CalleeName(call.fun))
    ELSE NoEffect

(***************************************************************************)
(* visitor.parseNewDescCallExpr (promlinter.go:403-428).  The result is    *)
(* [name, help, iss, fatal] with name and help pointers to strings.        *)
(***************************************************************************)
Desc(name, help, iss, fatal) == [name |-> name, help |-> help, iss |-> iss, fatal |-> fatal]

NilDesc(iss, fatal) == Desc(NilPtr, NilPtr, iss, fatal)

\* promlinter.go:422-427, name and help the results of parseValue
newDesc(name, help) ==
  IF ~help.ok THEN NilDesc(name.iss \o help.iss, help.fatal)
  ELSE Desc(Ptr(name.val), Ptr(help.val), name.iss \o help.iss, "")

\* promlinter.go:419-427, name the result of parseValue
parseDescHelp(call, name) ==
  IF ~name.ok THEN NilDesc(name.iss, name.fatal)
  ELSE IF Len(call.args) < 2 THEN NilDesc(name.iss, "index")
  ELSE newDesc(name, parseValue("help", call.args[2]))

parseNewDescCallExpr(call) ==
  IF Len(call.args) # 4 /\ strict
    THEN NilDesc(<<Issue(call.pos, NoString, Sprintf("NewDesc should have 4 args", <<>>))>>, "")
  ELSE IF Len(call.args) < 1 THEN NilDesc(<<>>, "index")
  ELSE parseDescHelp(call, parseValue("fqName", call.args[1]))

(***************************************************************************)
(* visitor.parseConstMetricOpts (promlinter.go:368-401)                    *)
(***************************************************************************)
DescIssue(n) ==
  IF strict
    THEN <<Issue(n.pos, NoString,
                 Sprintf("parsing desc of type %T is not supported", <<Decl(n.decl).t>>))>>
    ELSE <<>>

\* promlinter.go:375-396, d the declaration of the identifier n
parseDescDecl(n, d) ==
  IF /\ d.t = "*ast.AssignStmt"
     /\ Len(d.rhs) > 0
     /\ d.rhs[1].t = "*ast.CallExpr"
    THEN parseNewDescCallExpr(d.rhs[1])
  ELSE IF /\ d.t = "*ast.ValueSpec"
          /\ Len(d.values) > 0
          /\ d.values[1].t = "*ast.CallExpr"
    THEN parseNewDescCallExpr(d.values[1])
  ELSE NilDesc(DescIssue(n), "")

parseConstMetricOpts(n) ==
  CASE n.t = "*ast.CallExpr" -> parseNewDescCallExpr(n)
    [] n.t = "*ast.Ident" ->
         IF n.decl.t = "nil" THEN NilDesc(<<>>, "") ELSE parseDescDecl(n, Decl(n.decl))
    [] OTHER -> NilDesc(<<>>, "")

(***************************************************************************)
(* getConstMetricType (promlinter.go:439-448)                              *)
(***************************************************************************)
getConstMetricType(name) ==
  IF name = "CounterValue" THEN "COUNTER"
  ELSE IF name = "GaugeValue" THEN "GAUGE"
  ELSE "UNTYPED"

(***************************************************************************)
(* visitor.parseSendMetricChanExpr (promlinter.go:193-255).  A nil         *)
(* metric.Type is the kind "nil".                                          *)
(***************************************************************************)
NilType == "nil"

ConstMetricType(call, methodName) ==
  CASE methodName = "MustNewConstMetric" ->
         IF call.args[2].t = "*ast.Ident" THEN getConstMetricType(call.args[2].name)
         ELSE IF call.args[2].t = "*ast.SelectorExpr" THEN getConstMetricType(call.args[2].sel)
         ELSE NilType
    [] methodName = "MustNewHistogram" -> "HISTOGRAM"
    [] methodName = "MustNewSummary" -> "SUMMARY"
    [] OTHER -> NilType

\* promlinter.go:228-254, d the result of parseConstMetricOpts
recordConstMetric(call, methodName, d) ==
  IF d.name = NilPtr THEN Effect(d.iss, <<>>, d.fatal)
  ELSE IF methodName = "MustNewConstMetric" /\ Len(call.args) < 2
    THEN Effect(d.iss, <<>>, "index")
  ELSE Effect(d.iss,
              <<Entry(MetricFamily(ConstMetricType(call, methodName), d.name, d.help),
                      call.pos)>>,
              "")

\* promlinter.go:218-254
parseSendCall(call, methodName, requiredArgNum) ==
  IF Len(call.args) < requiredArgNum /\ strict
    THEN Effect(<<ArgCountIssue(call, methodName, requiredArgNum)>>, <<>>, "")
  ELSE IF Len(call.args) < 1 THEN Effect(<<>>, <<>>, "index")
  ELSE recordConstMetric(call, methodName, parseConstMetricOpts(call.args[1]))

\* promlinter.go:204-254, call the value sent
parseSentCall(call) ==
  IF call.fun.t \in {"*ast.Ident", "*ast.SelectorExpr"}
    THEN IF CalleeName(call.fun) \in DOMAIN constMetricArgs
           THEN parseSendCall(call, CalleeName(call.fun), constMetricArgs[CalleeName(call.fun)])
           ELSE NoEffect
    ELSE parseSendCall(call, "", 0)

parseSendMetricChanExpr(chExpr) ==
  IF chExpr.value.t # "*ast.CallExpr" THEN NoEffect ELSE parseSentCall(chExpr.value)

(***************************************************************************)
(* The nodes ast.Walk goes on to visit after a node, in its order (Run,   *)
(* promlinter.go:77-79).                                                   *)
(***************************************************************************)
SendStmt(chan, value) == [t |-> "*ast.SendStmt", chan |-> chan, value |-> value]

Children(n) ==
  CASE n.t = "*ast.CallExpr" -> <<n.fun>> \o n.args
    [] n.t = "*ast.SendStmt" -> <<n.chan, n.value>>
    [] n.t = "*ast.CompositeLit" -> n.elts
    [] n.t = "*ast.KeyValueExpr" -> <<n.key, n.value>>
    [] n.t = "*ast.BinaryExpr" -> <<n.x, n.y>>
    [] n.t = "*ast.AssignStmt" -> n.lhs \o n.rhs
    [] OTHER -> <<>>

(***************************************************************************)
(* The validator, promlint.NewWithMetricFamilies(...).Lint(), called at    *)
(* promlinter.go:83: three of its rules, in the order it returns them.  The  *)
(* getters of a metric family read a nil Type as COUNTER and a nil Name as *)
(* the empty string.  With metric families it returns no error.            *)
(***************************************************************************)
Problem(metric, text) == [Metric |-> metric, Text |-> Sprintf(text, <<>>)]

GetName(mf) == IF mf.Name = NilPtr THEN <<>> ELSE mf.Name[1]

GetType(mf) == IF mf.Type = NilType THEN "COUNTER" ELSE mf.Type

TotalSuffix == <<"_", "t", "o", "t", "a", "l">>

Lint(mf) ==
  (IF GetType(mf) = "COUNTER" /\ ~HasSuffix(GetName(mf), TotalSuffix)
     THEN <<Problem(GetName(mf), "counter metrics should have \"_total\" suffix")>>
     ELSE <<>>)
  \o
  (IF mf.Help = NilPtr THEN <<Problem(GetName(mf), "no help text")>> ELSE <<>>)
  \o
  (IF GetType(mf) \notin {"COUNTER", "UNTYPED"} /\ HasSuffix(GetName(mf), TotalSuffix)
     THEN <<Problem(GetName(mf), "non-counter metrics should not have \"_total\" suffix")>>
     ELSE <<>>)

(***************************************************************************)
(* Run (promlinter.go:69-101): the loop over v.metrics, in the order the   *)
(* map is iterated, and the sort of the issues by Pos.String().            *)
(* sort.Slice sorts a slice of at most 12 elements by insertion, as here.  *)
(***************************************************************************)
IssueLess(a, b) == StrLess(PosString(a.Pos), PosString(b.Pos))

RECURSIVE InsertIssue(_, _)
InsertIssue(sorted, x) ==
  IF sorted = <<>> THEN <<x>>
  ELSE IF IssueLess(x, sorted[Len(sorted)])
    THEN InsertIssue(SubSeq(sorted, 1, Len(sorted) - 1), x) \o <<sorted[Len(sorted)]>>
    ELSE sorted \o <<x>>

RECURSIVE SortFrom(_, _, _)
SortFrom(s, i, acc) ==
  IF i > Len(s) THEN acc ELSE SortFrom(s, i + 1, InsertIssue(acc, s[i]))

SortIssues(s) == SortFrom(s, 1, <<>>)

\* promlinter.go:88-94
ProblemIssues(pos, problems) ==
  [i \in 1..Len(problems) |-> Issue(pos, problems[i].Metric, problems[i].Text)]

LintEntry(e) == ProblemIssues(e.pos, Lint(e.mf))

RECURSIVE LintInOrder(_, _, _)
LintInOrder(entries, order, i) ==
  IF i > Len(order) THEN <<>>
  ELSE LintEntry(entries[order[i]]) \o LintInOrder(entries, order, i + 1)

\* the orders in which a map of n entries can be iterated
IterationOrders(n) ==
  {o \in [1..n -> 1..n] : \A i, j \in 1..n : i # j => o[i] # o[j]}

RunResult(walked, entries, order) ==
  SortIssues(walked \o LintInOrder(entries, order, 1))

(***************************************************************************)
(* The state machine.  todo holds the nodes ast.Walk has still to visit,   *)
(* visited counts the statements of the input taken so far, last is the    *)
(* node the last step handled, with the sizes of v.issues and v.metrics    *)
(* before it.                                                              *)
(***************************************************************************)
\* the most statements a file of the input has
MaxSites == 2

NoLast == [op |-> "none"]

InitWalk ==
  /\ strict \in BOOLEAN
  /\ phase = "walking"
  /\ visited = 0
  /\ todo = <<>>
  /\ metrics = <<>>
  /\ issues = <<>>
  /\ last = NoLast

PhaseAfter(fatal) ==
  CASE fatal = "" -> "walking"
    [] fatal = "recursion" -> "overflow"
    [] OTHER -> "panicked"

\* the switch of visitor.Visit (promlinter.go:108-116)
NodeKind(n) ==
  CASE n.t = "*ast.CallExpr" -> "call"
    [] n.t = "*ast.SendStmt" -> "send"
    [] OTHER -> "other"

\* the node ast.Walk visits next: the next node of the current statement or,
\* when that is exhausted, one of stmts, the next statement of the input (at
\* most max of them)
NextNodes(stmts, max) ==
  IF todo # <<>> THEN {Head(todo)}
  ELSE IF visited < max THEN stmts ELSE {}

\* the visitor after a handler with effect e on the node n
Handled(n, e) ==
  /\ issues' = issues \o e.iss
  /\ metrics' = metrics \o e.mets
  /\ phase' = PhaseAfter(e.fatal)
  /\ todo' = IF e.fatal # "" THEN <<>>
             ELSE Children(n) \o (IF todo # <<>> THEN Tail(todo) ELSE <<>>)
  /\ visited' = IF todo # <<>> THEN visited ELSE visited + 1
  /\ last' = [op |-> "visit", node |-> n, ni |-> Len(issues), nm |-> Len(metrics),
              fatal |-> e.fatal]
  /\ UNCHANGED strict

\* visitor.Visit (promlinter.go:103-117) on a call expression
VisitCallExpr(stmts, max) ==
  /\ phase = "walking"
  /\ \E n \in NextNodes(stmts, max) :
       /\ NodeKind(n) = "call"
       /\ Handled(n, parseCallerExpr(n))

\* visitor.Visit on a send statement
VisitSendStmt(stmts, max) ==
  /\ phase = "walking"
  /\ \E n \in NextNodes(stmts, max) :
       /\ NodeKind(n) = "send"
       /\ Handled(n, parseSendMetricChanExpr(n))

\* visitor.Visit on any other node
VisitNode(stmts, max) ==
  /\ phase = "walking"
  /\ \E n \in NextNodes(stmts, max) :
       /\ NodeKind(n) = "other"
       /\ Handled(n, NoEffect)

\* the end of the walk: lint every recorded family, sort, return
Finish ==
  /\ phase = "walking"
  /\ todo = <<>>
  /\ \E order \in IterationOrders(Len(metrics)) :
       issues' = RunResult(issues, metrics, order)
  /\ phase' = "returned"
  /\ last' = [op |-> "run", walked |-> issues]
  /\ UNCHANGED <<strict, visited, todo, metrics>>

(***************************************************************************)
(* Inputs: expressions a field value can be.                               *)
(***************************************************************************)
\* "a"  "b"  ""  "a\n"  `a\n`  "\"b"
GoodLits ==
  {Quoted(<<"a">>), Quoted(<<"b">>), Quoted(<<>>),
   StringLit(<<DQ, "a", BS, "n", DQ>>),
   StringLit(<<BQ, "a", BS, "n", BQ>>),
   StringLit(<<DQ, BS, DQ, "b", DQ>>)}

\* 42, and a string literal the scanner reported as unterminated: "a
IntLit == BasicLit("INT", <<"4", "2">>)
BrokenLit == StringLit(<<DQ, "a">>)

Key(name) == Ident(name, NoObj, At(1, 1))

\* f() and pkg.Const and ("a") at the given position
FuncCall(pos) == CallExpr(Ident("f", NoObj, pos), <<>>)
PkgConst(pos) == SelectorExpr("Const", pos)
Paren(pos) == OtherExpr("*ast.ParenExpr", pos)

Concats(xs, ys) == {BinaryExpr(x, "+", y) : x \in xs, y \in ys}

\* x declared by  var x = e,  x := e,  var p, x = "b", e,  p, x := "b", e
VarIdent(e, pos) == Ident("x", ValueSpec(<<"x">>, <<e>>), pos)
ShortIdent(e, pos) == Ident("x", AssignStmt(<<Key("x")>>, <<e>>), pos)
SecondVarIdent(e, pos) == Ident("x", ValueSpec(<<"p", "x">>, <<Quoted(<<"b">>), e>>), pos)
SecondShortIdent(e, pos) ==
  Ident("x", AssignStmt(<<Key("p"), Key("x")>>, <<Quoted(<<"b">>), e>>), pos)

Declared(es, pos) ==
  {VarIdent(e, pos) : e \in es} \cup {ShortIdent(e, pos) : e \in es}
    \cup {SecondVarIdent(e, pos) : e \in es} \cup {SecondShortIdent(e, pos) : e \in es}

\* identifiers that resolve to nothing: no object, a parameter, a spec
\* without values (const ( a = "a"; x )), and the package-level cycles
Unresolvable(pos) ==
  {Ident("x", NoObj, pos), Ident("x", FieldDecl, pos),
   Ident("x", ValueSpec(<<"x">>, <<>>), pos)}

Cyclic(pos) == {Ident("s", PkgObj(1), pos), Ident("m", PkgObj(2), pos)}

Unsupported(pos) == {FuncCall(pos), PkgConst(pos), Paren(pos)}

SimpleExprs(pos) ==
  GoodLits \cup {IntLit, BrokenLit} \cup Unsupported(pos) \cup Unresolvable(pos)
    \cup Concats(GoodLits, {Quoted(<<"b">>), StringLit(<<BQ, "a", BS, "n", BQ>>)})
    \cup {BinaryExpr(Quoted(<<"a">>), "-", Quoted(<<"b">>)),
          BinaryExpr(Quoted(<<"a">>), "+", IntLit),
          BinaryExpr(FuncCall(pos), "+", PkgConst(pos)),
          BinaryExpr(Quoted(<<"a">>), "+", FuncCall(pos))}

ValueExprs ==
  LET pos == At(7, 20)
      simple == SimpleExprs(pos)
      declared == Declared(simple, pos)
  IN  simple \cup declared \cup Cyclic(pos)
        \cup {VarIdent(d, pos) : d \in Declared(GoodLits, pos)}
        \cup Concats(Declared(GoodLits, pos), {Quoted(<<"b">>)})
        \cup {Ident("k", PkgObj(4), pos)}

(***************************************************************************)
(* SpecValue: v.parseValue applied to one expression                       *)
(***************************************************************************)
ResolvedTo(n, r) ==
  /\ last' = [op |-> "parseValue", node |-> n, ok |-> r.ok, val |-> r.val, fatal |-> r.fatal]
  /\ issues' = issues \o r.iss
  /\ phase' = PhaseAfter(r.fatal)

ResolveValue ==
  /\ phase = "walking"
  /\ last.op = "none"
  /\ \E n \in ValueExprs :
       ResolvedTo(n, parseValue("Name", n))
  /\ UNCHANGED <<strict, visited, todo, metrics>>

NextValue == ResolveValue

SpecValue == InitWalk /\ [][NextValue]_vars

(***************************************************************************)
(* Inputs: direct constructor calls                                        *)
(***************************************************************************)
\* prometheus.<name> and, under a dot import, <name>
Callee(form, name, pos) ==
  IF form = "selector" THEN SelectorExpr(name, pos) ELSE Ident(name, NoObj, pos)

\* []string{"a"}
Labels(pos) == CompositeLit(<<Quoted(<<"a">>)>>, pos)

\* the arguments of a constructor after its options
RestArgs(name, line) == IF HasVecSuffix(name) THEN <<Labels(At(line, 60))>> ELSE <<>>

OptsLit(namespace, subsystem, name, help, line) ==
  CompositeLit(<<KeyValue(Key("Namespace"), namespace),
                 KeyValue(Key("Subsystem"), subsystem),
                 KeyValue(Key("ConstLabels"), Paren(At(line, 40))),
                 KeyValue(Key("Name"), name),
                 KeyValue(Key("Help"), help)>>,
               At(line, 30))

\* string literals and the strings they denote
LitTable ==
  {[lit |-> Quoted(<<>>), denotes |-> <<>>],
   [lit |-> Quoted(<<"n", "s">>), denotes |-> <<"n", "s">>],
   [lit |-> Quoted(<<"s">>), denotes |-> <<"s">>],
   [lit |-> Quoted(<<"m">>), denotes |-> <<"m">>],
   [lit |-> Quoted(<<"h">>), denotes |-> <<"h">>],
   [lit |-> StringLit(<<DQ, "h", BS, "n", DQ>>), denotes |-> <<"h", LF>>],
   [lit |-> StringLit(<<BQ, "h", BS, "n", BQ>>), denotes |-> <<"h", BS, "n">>]}

Denoted(lit) == (CHOOSE e \in LitTable : e.lit = lit).denotes

NamespaceLits == {Quoted(<<>>), Quoted(<<"n", "s">>)}
SubsystemLits == {Quoted(<<>>), Quoted(<<"s">>)}
NameLits == {Quoted(<<>>), Quoted(<<"m">>)}
HelpLits ==
  {Quoted(<<"h">>), StringLit(<<DQ, "h", BS, "n", DQ>>), StringLit(<<BQ, "h", BS, "n", BQ>>)}

LiteralCtorCalls ==
  {CallExpr(Callee(form, name, At(5, 5)),
            <<OptsLit(ns, sub, nm, help, 5)>> \o RestArgs(name, 5)) :
     form \in {"selector", "ident"}, name \in DOMAIN metricsType,
     ns \in NamespaceLits, sub \in SubsystemLits, nm \in NameLits, help \in HelpLits}

\* options in which one field has the value v
OptsWith(field, v, line) ==
  OptsLit(IF field = "Namespace" THEN v ELSE Quoted(<<"n", "s">>),
          IF field = "Subsystem" THEN v ELSE Quoted(<<"s">>),
          IF field = "Name" THEN v ELSE Quoted(<<"m">>),
          IF field = "Help" THEN v ELSE Quoted(<<"h">>),
          line)

FieldValues ==
  LET pos == At(5, 50)
  IN  SimpleExprs(pos) \cup Declared(GoodLits, pos) \cup Cyclic(pos)
        \cup {VarIdent(FuncCall(At(3, 9)), pos), VarIdent(IntLit, pos)}

\* opts := prometheus.CounterOpts{...}; prometheus.NewCounter(opts)
OptsIdent(lit, pos) == Ident("opts", AssignStmt(<<Key("opts")>>, <<lit>>), pos)

OneFieldCtorCalls ==
  {CallExpr(Callee("selector", name, At(5, 5)), <<OptsWith(field, v, 5)>> \o RestArgs(name, 5)) :
     name \in {"NewCounter", "NewGaugeVec"}, field \in validOptsFields, v \in FieldValues}
  \cup
  {CallExpr(Callee("selector", "NewSummary", At(5, 5)),
            <<OptsIdent(OptsWith(field, v, 4), At(5, 30))>>) :
     field \in validOptsFields, v \in Unsupported(At(4, 50)) \cup {IntLit, Quoted(<<"a">>)}}

TwoFieldCtorCalls ==
  {CallExpr(Callee("selector", "NewHistogram", At(5, 5)),
            <<OptsLit(v, Quoted(<<"s">>), w, Quoted(<<"h">>), 5)>>) :
     v \in {IntLit, FuncCall(At(5, 35)), Ident("x", NoObj, At(5, 35))},
     w \in {FuncCall(At(5, 50)), PkgConst(At(5, 50))}}

\* calls with no options to read
OtherCtorCalls ==
  {CallExpr(Callee("selector", name, At(5, 5)), args) :
     name \in {"NewCounter", "NewCounterVec", "NewDesc"},
     args \in {<<>>, <<Ident("opts", NoObj, At(5, 30))>>, <<FuncCall(At(5, 30))>>,
               <<Ident("opts", ValueSpec(<<"opts">>, <<OptsWith("Name", Quoted(<<"m">>), 4)>>),
                       At(5, 30))>>}}
  \cup {CallExpr(OtherExpr("*ast.FuncLit", At(5, 5)), <<OptsWith("Name", Quoted(<<"m">>), 5)>>)}

CtorCalls == LiteralCtorCalls \cup OneFieldCtorCalls \cup TwoFieldCtorCalls \cup OtherCtorCalls

(***************************************************************************)
(* SpecCtor: Run on a file whose one statement is a call                   *)
(***************************************************************************)
NextCtor == VisitCallExpr(CtorCalls, 1) \/ VisitNode(CtorCalls, 1) \/ Finish

SpecCtor == InitWalk /\ [][NextCtor]_vars

(***************************************************************************)
(* Inputs: the statements of a file                                        *)
(***************************************************************************)
\* prometheus.<name>(args...) on the given line
Direct(name, args, line) == CallExpr(SelectorExpr(name, At(line, 5)), args)

\* prometheus.XOpts{Name: "<name>"} with or without Help: "h"
NamedOpts(name, withHelp, pos) ==
  CompositeLit(<<KeyValue(Key("Name"), Quoted(name))>>
                 \o (IF withHelp THEN <<KeyValue(Key("Help"), Quoted(<<"h">>))>> ELSE <<>>),
               pos)

ValueOpts(v, pos) ==
  CompositeLit(<<KeyValue(Key("Name"), v), KeyValue(Key("Help"), Quoted(<<"h">>))>>, pos)

Nil(pos) == Ident("nil", NoObj, pos)

MyMetric == <<"m", "y", "_", "m", "e", "t", "r", "i", "c">>
HelpText == <<"h", "e", "l", "p", " ", "t", "e", "x", "t">>

\* prometheus.NewDesc(name, help, nil, nil), cut or extended to n arguments
DescArgs(name, help, pos) == <<name, help, Nil(pos), Nil(pos), Nil(pos)>>

NewDesc(name, help, n, pos) ==
  CallExpr(SelectorExpr("NewDesc", pos), SubSeq(DescArgs(name, help, pos), 1, n))

GoodDesc(pos) == NewDesc(Quoted(MyMetric), Quoted(HelpText), 4, pos)

\* ch <- <call>
Send(call) == SendStmt(Ident("ch", FieldDecl, At(call.pos.line, 1)), call)

\* prometheus.<name>(desc, value, 1.0, 2.0), cut to n arguments
ConstArgs(desc, value) ==
  <<desc, value, BasicLit("FLOAT", <<"1", ".", "0">>), BasicLit("FLOAT", <<"2", ".", "0">>)>>

ConstMetric(fun, desc, value, n) == CallExpr(fun, SubSeq(ConstArgs(desc, value), 1, n))

CounterValue(pos) == Ident("CounterValue", NoObj, pos)

DirectStatements ==
  \* well-formed calls on lines 8, 9 and 10
  {Direct("NewGauge", <<NamedOpts(<<"g">>, TRUE, At(8, 30))>>, 8),
   Direct("NewCounter", <<NamedOpts(<<"m">>, FALSE, At(9, 30))>>, 9),
   Direct("NewGauge", <<NamedOpts(<<"g">>, FALSE, At(10, 30))>>, 10),
   Direct("NewCounter", <<OptsIdent(NamedOpts(<<"m">>, TRUE, At(3, 9)), At(14, 30))>>, 14),
   AssignStmt(<<Key("c")>>,
              <<Direct("NewSummary", <<NamedOpts(<<"s">>, TRUE, At(13, 30))>>, 13)>>)}
  \cup
  \* two calls that a //line directive without a column places on line 9
  {CallExpr(SelectorExpr("NewCounter", At(9, 0)), <<NamedOpts(<<"c">>, FALSE, At(9, 0))>>),
   CallExpr(SelectorExpr("NewGauge", At(9, 0)), <<NamedOpts(<<"g">>, FALSE, At(9, 0))>>)}
  \cup
  \* too few arguments
  {Direct(name, <<>>, 11) : name \in DOMAIN metricsType}
  \cup
  {Direct(name, <<NamedOpts(<<"v">>, TRUE, At(12, 30))>>, 12) :
     name \in {"NewCounterVec", "NewGaugeVec", "NewHistogramVec", "NewSummaryVec"}}
  \cup
  \* options that do not resolve
  {Direct("NewCounter", <<v>>, 15) :
     v \in {Ident("opts", NoObj, At(15, 30)),
            ValueOpts(FuncCall(At(15, 40)), At(15, 30)),
            ValueOpts(BrokenLit, At(15, 30)),
            ValueOpts(Ident("s", PkgObj(1), At(15, 40)), At(15, 30)),
            ValueOpts(Ident("m", PkgObj(2), At(15, 40)), At(15, 30)),
            ValueOpts(Ident("k", PkgObj(4), At(15, 40)), At(15, 30))}}
  \cup
  \* calls of other functions
  {Direct("Register", <<Ident("c", NoObj, At(16, 30))>>, 16),
   CallExpr(OtherExpr("*ast.FuncLit", At(16, 5)), <<>>)}

SendStatements ==
  \* each const-metric function with 0 to 4 arguments
  {Send(ConstMetric(SelectorExpr(name, At(20, 11)), GoodDesc(At(20, 40)),
                    CounterValue(At(20, 70)), n)) :
     name \in DOMAIN constMetricArgs, n \in 0..4}
  \cup
  \* the second argument of MustNewConstMetric
  {Send(ConstMetric(Ident("MustNewConstMetric", NoObj, At(21, 11)), GoodDesc(At(21, 40)), v, 3)) :
     v \in {CounterValue(At(21, 70)), SelectorExpr("GaugeValue", At(21, 70)),
            Ident("UntypedValue", NoObj, At(21, 70)), FuncCall(At(21, 70)), IntLit}}
  \cup
  \* the descriptor: desc := NewDesc(...), var desc = NewDesc(...), a
  \* parameter, an unresolved name, desc := "a", a literal
  {Send(ConstMetric(Ident("MustNewConstMetric", NoObj, At(22, 11)), d, CounterValue(At(22, 70)), 3)) :
     d \in {Ident("desc", AssignStmt(<<Key("desc")>>, <<GoodDesc(At(2, 9))>>), At(22, 40)),
            Ident("desc", ValueSpec(<<"desc">>, <<GoodDesc(At(2, 9))>>), At(22, 40)),
            Ident("desc", FieldDecl, At(22, 40)),
            Ident("desc", NoObj, At(22, 40)),
            Ident("desc", AssignStmt(<<Key("desc")>>, <<Quoted(<<"a">>)>>), At(22, 40)),
            Quoted(<<"a">>)}}
  \cup
  \* NewDesc with 0, 1, 2, 3 and 5 arguments
  {Send(ConstMetric(SelectorExpr("MustNewHistogram", At(23, 11)),
                    NewDesc(Quoted(MyMetric), Quoted(HelpText), n, At(23, 40)),
                    CounterValue(At(23, 70)), 4)) :
     n \in {0, 1, 2, 3, 5}}
  \cup
  \* NewDesc whose name or help does not resolve
  {Send(ConstMetric(SelectorExpr("MustNewSummary", At(24, 11)),
                    NewDesc(v, w, 4, At(24, 40)), CounterValue(At(24, 70)), 4)) :
     v \in {Quoted(MyMetric), FuncCall(At(24, 50)), Ident("s", PkgObj(1), At(24, 50))},
     w \in {Quoted(HelpText), PkgConst(At(24, 60)), BrokenLit}}
  \cup
  \* other values sent: another function, a callee that is neither a name
  \* nor a selector, a value that is no call
  {Send(ConstMetric(SelectorExpr("NewMetric", At(25, 11)), GoodDesc(At(25, 40)),
                    CounterValue(At(25, 70)), 3)),
   Send(ConstMetric(OtherExpr("*ast.ParenExpr", At(25, 11)), GoodDesc(At(25, 40)),
                    CounterValue(At(25, 70)), 3)),
   Send(ConstMetric(OtherExpr("*ast.IndexExpr", At(25, 11)), GoodDesc(At(25, 40)),
                    CounterValue(At(25, 70)), 0)),
   SendStmt(Ident("ch", FieldDecl, At(25, 1)), Ident("metric", FieldDecl, At(25, 11)))}

Statements == DirectStatements \cup SendStatements

(***************************************************************************)
(* Spec: Run on a file of at most MaxSites statements                      *)
(***************************************************************************)
Init == InitWalk

Next ==
  \/ VisitCallExpr(Statements, MaxSites)
  \/ VisitSendStmt(Statements, MaxSites)
  \/ VisitNode(Statements, MaxSites)
  \/ Finish

Spec == Init /\ [][Next]_vars

(***************************************************************************)
(* Claims about literal resolution (SpecValue)                             *)
(***************************************************************************)
\* the initializer of the identifier n in its declaration: the e of
\* x := e, var x = e, const x = e, at the place of x among the names
NameIndex(names, name) == {i \in 1..Len(names) : names[i] = name}

DeclNames(d) ==
  CASE d.t = "*ast.AssignStmt" -> [i \in 1..Len(d.lhs) |-> d.lhs[i].name]
    [] d.t = "*ast.ValueSpec" -> d.names
    [] OTHER -> <<>>

DeclValues(d) ==
  CASE d.t = "*ast.AssignStmt" -> d.rhs
    [] d.t = "*ast.ValueSpec" -> d.values
    [] OTHER -> <<>>

HasInitializer(n) ==
  /\ n.t = "*ast.Ident"
  /\ n.decl.t \notin {"nil", "pkg"}
  /\ Len(DeclValues(n.decl)) = Len(DeclNames(n.decl))
  /\ NameIndex(DeclNames(n.decl), n.name) # {}

Initializer(n) ==
  DeclValues(n.decl)[CHOOSE i \in NameIndex(DeclNames(n.decl), n.name) : TRUE]

\* C5: resolving an identifier declared with a resolvable initializer e, by
\* a short assignment or by a value spec, succeeds and yields the string
\* that resolving e yields.
C5_IndirectionPreserved ==
  (/\ last.op = "parseValue"
   /\ HasInitializer(last.node)
   /\ parseValue("Name", Initializer(last.node)).ok)
    => (/\ last.ok
        /\ last.val = parseValue("Name", Initializer(last.node)).val)

(***************************************************************************)
(* Claims about direct constructor calls (SpecCtor)                        *)
(***************************************************************************)
IsCtorCall(n) ==
  /\ n.t = "*ast.CallExpr"
  /\ n.fun.t \in {"*ast.Ident", "*ast.SelectorExpr"}
  /\ CalleeName(n.fun) \in DOMAIN metricsType

\* the elements of an options literal that set the field
FieldElts(lit, field) ==
  {i \in 1..Len(lit.elts) : Recognized(lit.elts[i]) /\ lit.elts[i].key.name = field}

FieldValue(lit, field) == lit.elts[CHOOSE i \in FieldElts(lit, field) : TRUE].value

\* a constructor call whose options literal sets each of Namespace,
\* Subsystem, Name and Help once, to a string literal
LiteralOpts(n) ==
  /\ IsCtorCall(n)
  /\ Len(n.args) >= 1
  /\ n.args[1].t = "*ast.CompositeLit"
  /\ \A field \in validOptsFields :
       /\ Cardinality(FieldElts(n.args[1], field)) = 1
       /\ \E e \in LitTable : e.lit = FieldValue(n.args[1], field)

Segment(n, field) == Denoted(FieldValue(n.args[1], field))

RECURSIVE JoinNonEmpty(_)
JoinNonEmpty(segs) ==
  IF segs = <<>> THEN <<>>
  ELSE IF Head(segs) = <<>> THEN JoinNonEmpty(Tail(segs))
  ELSE IF JoinNonEmpty(Tail(segs)) = <<>> THEN Head(segs)
  ELSE Head(segs) \o <<"_">> \o JoinNonEmpty(Tail(segs))

Segments(n) == <<Segment(n, "Namespace"), Segment(n, "Subsystem"), Segment(n, "Name")>>

Recorded == metrics[Len(metrics)].mf

\* C1 as stated: for every constructor call with literal Namespace,
\* Subsystem, Name and Help, and every combination of empty and non-empty
\* segments, the recorded name is the non-empty segments joined with "_" in
\* the order namespace, subsystem, name, and the help is the Help literal
\* unquoted.
C1_NameIsJoinOfNonEmpty ==
  (last.op = "visit" /\ LiteralOpts(last.node))
    => (/\ Len(metrics) = last.nm + 1
        /\ Recorded.Name = Ptr(JoinNonEmpty(Segments(last.node)))
        /\ Recorded.Help = Ptr(Segment(last.node, "Help")))

\* C1 amended: the recorded name is that join when Name is non-empty and the
\* empty string when Name is empty; the help is the Help literal unquoted.
C1_NameIsJoinUnlessNameEmpty ==
  (last.op = "visit" /\ LiteralOpts(last.node))
    => (/\ Len(metrics) = last.nm + 1
        /\ Recorded.Name = Ptr(IF Segment(last.node, "Name") = <<>> THEN <<>>
                               ELSE JoinNonEmpty(Segments(last.node)))
        /\ Recorded.Help = Ptr(Segment(last.node, "Help")))

\* C1 witness: a call with three non-empty segments and an escape in its
\* help has been recorded as ns_s_m
C1_Witness ==
  /\ last.op = "visit"
  /\ LiteralOpts(last.node)
  /\ Segments(last.node) = <<(<<"n", "s">>), (<<"s">>), (<<"m">>)>>
  /\ Segment(last.node, "Help") = <<"h", LF>>
  /\ Len(metrics) = last.nm + 1
  /\ Recorded.Name = Ptr(<<"n", "s", "_", "s", "_", "m">>)

\* the options literal a constructor call reads: its first argument, or the
\* literal assigned to the identifier that is its first argument
HasOptsLit(n) ==
  /\ IsCtorCall(n)
  /\ Len(n.args) >= 1
  /\ \/ n.args[1].t = "*ast.CompositeLit"
     \/ /\ n.args[1].t = "*ast.Ident"
        /\ n.args[1].decl.t = "*ast.AssignStmt"
        /\ n.args[1].decl.rhs[1].t = "*ast.CompositeLit"

OptsLitOf(n) ==
  IF n.args[1].t = "*ast.CompositeLit" THEN n.args[1] ELSE n.args[1].decl.rhs[1]

\* the recognized fields whose value does not resolve
FailingElts(lit) ==
  {i \in 1..Len(lit.elts) :
     /\ Recognized(lit.elts[i])
     /\ ~parseValue(lit.elts[i].key.name, lit.elts[i].value).ok}

FirstFailing(lit) ==
  lit.elts[CHOOSE i \in FailingElts(lit) : \A j \in FailingElts(lit) : i <= j]

NewIssues == SubSeq(issues, last.ni + 1, Len(issues))

NamesField(issue, field) ==
  /\ issue.Text.format = "parsing field %s with type %T is not supported"
  /\ issue.Text.args[1] = field

\* values for which parseValue fails in a case of its own
SilentShape(v) ==
  \/ v.t = "*ast.BasicLit" /\ v.kind # "STRING"
  \/ v.t = "*ast.Ident" /\ Decl(v.decl).t # "*ast.ValueSpec"
  \/ v.t = "*ast.BinaryExpr" /\ v.op # "+"

OtherNodeType(v) ==
  v.t \notin {"*ast.BasicLit", "*ast.Ident", "*ast.ValueSpec", "*ast.BinaryExpr"}

\* C6 as stated: in strict mode, for every constructor call in which a
\* recognized field has a value that does not resolve, once the call has
\* been handled an issue names that field and no descriptor is recorded.
C6_IssueNamesEveryUnsupportedField ==
  (/\ strict
   /\ last.op = "visit"
   /\ HasOptsLit(last.node)
   /\ last.fatal = "")
    => \A i \in FailingElts(OptsLitOf(last.node)) :
         /\ \E k \in 1..Len(NewIssues) :
              NamesField(NewIssues[k], OptsLitOf(last.node).elts[i].key.name)
         /\ Len(metrics) = last.nm

\* C6 amended: in strict mode, when some recognized field of the options
\* does not resolve, no descriptor is recorded and every issue the call
\* emits names the first such field F: exactly one, at the value of F, when
\* that value is of a node type parseValue has no case for (a call, a
\* selector, a parenthesised expression); none when it is a literal that is
\* not a string, an identifier not declared by a value spec, or a binary
\* expression whose operator is not +.
C6_IssueForFirstFailingField ==
  (/\ strict
   /\ last.op = "visit"
   /\ HasOptsLit(last.node)
   /\ FailingElts(OptsLitOf(last.node)) # {})
    => LET F == FirstFailing(OptsLitOf(last.node))
       IN  /\ Len(metrics) = last.nm
           /\ \A k \in 1..Len(NewIssues) : NamesField(NewIssues[k], F.key.name)
           /\ OtherNodeType(F.value) =>
                NewIssues = <<Issue(F.value.pos, NoString,
                                    Sprintf("parsing field %s with type %T is not supported",
                                            <<F.key.name, F.value.t>>))>>
           /\ SilentShape(F.value) => NewIssues = <<>>

\* C6 witness: in strict mode a call whose Name is a function call has
\* emitted one issue naming Name and recorded nothing
C6_Witness ==
  /\ strict
  /\ last.op = "visit"
  /\ HasOptsLit(last.node)
  /\ FailingElts(OptsLitOf(last.node)) # {}
  /\ FirstFailing(OptsLitOf(last.node)).key.name = "Name"
  /\ FirstFailing(OptsLitOf(last.node)).value.t = "*ast.CallExpr"
  /\ Len(NewIssues) = 1
  /\ NamesField(NewIssues[1], "Name")
  /\ Len(metrics) = last.nm

(***************************************************************************)
(* Claims about Run on a file (Spec)                                       *)
(***************************************************************************)
\* the call a send statement sends, when its callee is a name or a selector
\* found in the table of const-metric functions
IsConstMetricSend(n) ==
  /\ n.t = "*ast.SendStmt"
  /\ n.value.t = "*ast.CallExpr"
  /\ n.value.fun.t \in {"*ast.Ident", "*ast.SelectorExpr"}
  /\ CalleeName(n.value.fun) \in DOMAIN constMetricArgs

\* the minimum number of arguments of a recognized call
RequiredArgs(name) ==
  CASE name \in {"NewCounter", "NewGauge", "NewHistogram", "NewSummary"} -> 1
    [] name \in {"NewCounterVec", "NewGaugeVec", "NewHistogramVec", "NewSummaryVec"} -> 2
    [] name = "MustNewConstMetric" -> 3
    [] OTHER -> 4

\* the recognized call the last visit handled, if any
LastCall == IF last.node.t = "*ast.SendStmt" THEN last.node.value ELSE last.node

LastRecognized ==
  /\ last.op = "visit"
  /\ IsCtorCall(last.node) \/ IsConstMetricSend(last.node)

TooFewArgs(call) == Len(call.args) < RequiredArgs(CalleeName(call.fun))

\* C2 as stated: in strict mode a recognized call with fewer arguments than
\* its minimum emits exactly one issue, naming the callee and the minimum,
\* and records no descriptor.
C2_OneIssuePerShortCall ==
  (strict /\ LastRecognized /\ TooFewArgs(LastCall))
    => (/\ NewIssues =
             <<Issue(LastCall.pos, NoString,
                     Sprintf("%s should have at least %d arguments",
                             <<CalleeName(LastCall.fun),
                               CountText(RequiredArgs(CalleeName(LastCall.fun)))>>))>>
        /\ Len(metrics) = last.nm)

\* the call that builds the descriptor of a const-metric call: its first
\* argument, or the call assigned to the identifier that is its first argument
DescCalls(call) ==
  IF Len(call.args) < 1 THEN {}
  ELSE IF call.args[1].t = "*ast.CallExpr" THEN {call.args[1]}
  ELSE IF call.args[1].t = "*ast.Ident" /\ call.args[1].decl.t = "*ast.AssignStmt"
    THEN {c \in {call.args[1].decl.rhs[1]} : c.t = "*ast.CallExpr"}
  ELSE IF call.args[1].t = "*ast.Ident" /\ call.args[1].decl.t = "*ast.ValueSpec"
    THEN {c \in {call.args[1].decl.values[1]} : c.t = "*ast.CallExpr"}
  ELSE {}

Malformed(n) ==
  \/ IsCtorCall(n) /\ TooFewArgs(n)
  \/ /\ IsConstMetricSend(n)
     /\ \/ TooFewArgs(n.value)
        \/ \E c \in DescCalls(n.value) : Len(c.args) # 4

\* C3 as stated: in lenient mode a malformed call site is skipped: the visit
\* returns, adds no issue and records no descriptor.
C3_LenientSkipsMalformed ==
  (~strict /\ last.op = "visit" /\ Malformed(last.node))
    => (/\ last.fatal = ""
        /\ NewIssues = <<>>
        /\ Len(metrics) = last.nm)

\* C4 as stated: the only panic that ends Run is that of a string literal
\* that cannot be unquoted; no call site with missing arguments or with an
\* unrecognized callee ends it.
C4_OnlyUnquoteAborts ==
  phase = "panicked" => last.fatal = "unquote"

\* C7 as stated: every recorded descriptor has a kind, a name and a help,
\* none of them nil.
C7_NoNilField ==
  \A i \in 1..Len(metrics) :
    /\ metrics[i].mf.Type # NilType
    /\ metrics[i].mf.Name # NilPtr
    /\ metrics[i].mf.Help # NilPtr

\* the name of the second argument of a call, "" when it is not a name
SecondArgName(call) ==
  IF Len(call.args) < 2 THEN ""
  ELSE CalleeName(call.args[2])

KindOf(call) ==
  CASE CalleeName(call.fun) = "MustNewHistogram" -> "HISTOGRAM"
    [] CalleeName(call.fun) = "MustNewSummary" -> "SUMMARY"
    [] SecondArgName(call) = "CounterValue" -> "COUNTER"
    [] SecondArgName(call) = "GaugeValue" -> "GAUGE"
    [] OTHER -> "UNTYPED"

\* C8 as stated: a send statement records a descriptor only for a call of
\* MustNewConstMetric, MustNewHistogram or MustNewSummary, and its kind is
\* Histogram, Summary, or for MustNewConstMetric Counter, Gauge or Untyped
\* as the second argument is named CounterValue, GaugeValue or otherwise.
C8_KindFollowsCallee ==
  (/\ last.op = "visit"
   /\ last.node.t = "*ast.SendStmt"
   /\ Len(metrics) > last.nm)
    => (/\ IsConstMetricSend(last.node)
        /\ Recorded.Type = KindOf(last.node.value))

\* C9 as stated: Run terminates: until it has returned or panicked there is
\* a next step of the walk to take.
C9_RunTerminates ==
  phase \in {"returned", "panicked"} \/ ENABLED Next

IdentityOrder(n) == [i \in 1..n |-> i]

RECURSIVE SortedFrom(_, _)
SortedFrom(s, i) ==
  IF i >= Len(s) THEN TRUE
  ELSE ~IssueLess(s[i + 1], s[i]) /\ SortedFrom(s, i + 1)

\* C10 as stated: the issues Run returns are sorted by formatted position
\* and are the same for every order in which the descriptors are iterated:
\* they are those of the iteration in the order of recording.
C10_SameIssuesForEveryOrder ==
  phase = "returned"
    => (/\ SortedFrom(issues, 1)
        /\ issues = RunResult(last.walked, metrics, IdentityOrder(Len(metrics))))

====
